---- MODULE Spec2Model ----
(***************************************************************************)
(* A model of the hierarchical layout system of crawl-ref/source/ui.cc:    *)
(* the Widget sizing protocol with its per-axis cache, the Box, Stack and  *)
(* Grid containers, and the UIRoot driver with its dirty flag.             *)
(*                                                                         *)
(* A widget is a record; a container holds its children in m_children.     *)
(* The C++ member functions read and write the widget they are called on,  *)
(* so each is an operator from the widget (and the arguments) to a record  *)
(* holding the returned value, the widget as the call leaves it (field w)  *)
(* and ok, which is FALSE when an ASSERT of the code failed on the way     *)
(* (the ASSERTs are taken as compiled in: a failed one ends the process).  *)
(* C arrays are 0-based and TLA+ tuples 1-based: margin[k] of the code is  *)
(* margin[k+1] here, and likewise for regions, positions and spans.        *)
(***************************************************************************)
EXTENDS Integers, Sequences, FiniteSets, TLC

VARIABLES
    \* ---- UIRoot (ui.cc:36-51) and the build it was compiled for
    USE_TILE_LOCAL, m_root, m_w, m_h, root_region, m_dirty,
    \* ---- history of the driver: what the last call did, whether a
    \* ---- mutation happened since the last pass, whether a pass ever ran,
    \* ---- whether an ASSERT ended the process
    last_op, mutated, laid_out, crashed,
    \* ---- one widget measured on its own (Widget::get_preferred_size)
    sz_widget, sz_last, sz_computed, sz_crashed,
    \* ---- Box::layout_main_axis, one state per round of its loop
    bm_flex, bm_psz, bm_main_sz, bm_ch_sz, bm_extra, bm_pc,
    \* ---- Box::layout_cross_axis and the alignment of Box::_allocate_region
    bc_box, bc_psz, bc_cross_sz, bc_ch_sz, bc_align, bc_pc,
    \* ---- a Stack on its own, with the log of the calls made on it
    st_stack, st_log

vars == << USE_TILE_LOCAL, m_root, m_w, m_h, root_region, m_dirty,
           last_op, mutated, laid_out, crashed,
           sz_widget, sz_last, sz_computed, sz_crashed,
           bm_flex, bm_psz, bm_main_sz, bm_ch_sz, bm_extra, bm_pc,
           bc_box, bc_psz, bc_cross_sz, bc_ch_sz, bc_align, bc_pc,
           st_stack, st_log >>

rootVars  == << USE_TILE_LOCAL, m_root, m_w, m_h, root_region, m_dirty,
                last_op, mutated, laid_out, crashed >>
sizeVars  == << sz_widget, sz_last, sz_computed, sz_crashed >>
mainVars  == << bm_flex, bm_psz, bm_main_sz, bm_ch_sz, bm_extra, bm_pc >>
crossVars == << bc_box, bc_psz, bc_cross_sz, bc_ch_sz, bc_align, bc_pc >>
stackVars == << st_stack, st_log >>

----------------------------------------------------------------------------
(* Directions, sentinel, small helpers *)

\* enum Direction: HORZ is 0 and VERT is 1 (the code tests !dim and
\* indexes margin[1-dim], margin[3-dim]).
HORZ == 0
VERT == 1

\* constexpr int ui_expand_sz = 0xffffff
ui_expand_sz == 16777215

Max(a, b) == IF a >= b THEN a ELSE b
Min(a, b) == IF a <= b THEN a ELSE b

\* struct SizeReq { int min, nat; }
SizeReq(mn, nt) == [min |-> mn, nat |-> nt]

RECURSIVE SeqSum(_)
\* accumulate(m.begin(), m.end(), 0) and the summing loops of the code
SeqSum(s) == IF s = << >> THEN 0 ELSE Head(s) + SeqSum(Tail(s))

\* every element of a sequence of call results is ok
AllOk(rs) == \A i \in 1..Len(rs) : rs[i].ok

----------------------------------------------------------------------------
(* Widgets as records: the fields of class Widget, and after them the      *)
(* fields of the subclass.                                                 *)

Aligns == {"inherit", "start", "center", "end", "stretch"}

\* class Widget
NewWidget(kind) ==
    [ kind            |-> kind,
      margin          |-> <<0, 0, 0, 0>>,
      flex_grow       |-> 1,
      expand_h        |-> FALSE, expand_v |-> FALSE,
      shrink_h        |-> FALSE, shrink_v |-> FALSE,
      align_self      |-> "inherit",
      cached_sr_valid |-> <<FALSE, FALSE>>,
      cached_sr       |-> <<SizeReq(0, 0), SizeReq(0, 0)>>,
      cached_sr_pw    |-> 0,
      m_region        |-> <<0, 0, 0, 0>>,
      m_children      |-> << >> ]

\* The bare Widget, whose hooks are the defaults.
Leaf == NewWidget("widget")

\* class Text, holding one line of n characters
Text(n, wrap) ==
    NewWidget("text") @@ [text_w |-> n, wrap_text |-> wrap, ellipsize |-> FALSE]

\* class Stack
NewStack == NewWidget("stack")

\* class Box
NewBox(horz, align_items) ==
    NewWidget("box") @@ [horz |-> horz, align_items |-> align_items,
                         justify_items |-> "start"]

\* class Grid; colf[i] and rowf[i] are the flex_grow weights given to the
\* tracks (track_flex_grow)
NewGrid(colf, rowf) ==
    NewWidget("grid") @@ [m_child_info |-> << >>, m_col_info |-> << >>,
                          m_row_info |-> << >>, m_track_info_dirty |-> FALSE,
                          track_flex |-> <<colf, rowf>>]

\* Stack::add_child
Stack_add_child(s, child) == [s EXCEPT !.m_children = Append(@, child)]

\* Stack::pop_child, had it erased the front of the vector
Stack_pop_front(s) ==
    IF Len(s.m_children) = 0
    THEN s
    ELSE [s EXCEPT !.m_children = SubSeq(@, 2, Len(@))]

\* Stack::pop_child
Stack_pop_child(s) ==
    IF Len(s.m_children) = 0
    THEN s
    ELSE [s EXCEPT !.m_children = SubSeq(@, 1, Len(@) - 1)]

\* Box::add_child
Box_add_child(b, child) == [b EXCEPT !.m_children = Append(@, child)]

\* Grid::add_child(child, x, y, w, h)
Grid_add_child(g, child, x, y, w, h) ==
    [g EXCEPT !.m_child_info = Append(@, [pos |-> <<x, y>>, span |-> <<w, h>>]),
              !.m_children = Append(@, child),
              !.m_track_info_dirty = TRUE]

WithMargin(w, m)  == [w EXCEPT !.margin = m]
WithFlex(w, f)    == [w EXCEPT !.flex_grow = f]
WithAlign(w, a)   == [w EXCEPT !.align_self = a]
WithExpand(w, eh, ev) == [w EXCEPT !.expand_h = eh, !.expand_v = ev]
WithShrink(w, sh, sv) == [w EXCEPT !.shrink_h = sh, !.shrink_v = sv]

----------------------------------------------------------------------------
(* Text: the measurement hook of the console build *)

\* formatted_string::parse_string_to_multiple(text, lines, width), as far as
\* Text uses it: the number of lines one line of n characters wraps to.
WrappedLines(n, width) ==
    IF n = 0 THEN 1
    ELSE IF width < 1 THEN n
    ELSE (n + width - 1) \div width

\* Text::_get_preferred_size (#else branch)
Text_get_preferred_size(w, dim, prosp_width) ==
    IF dim = HORZ
    THEN [sr |-> SizeReq(IF w.ellipsize THEN 0
                         ELSE IF w.wrap_text THEN 0 ELSE w.text_w,
                         w.text_w),
          w |-> w, ok |-> TRUE]
    ELSE LET height == WrappedLines(w.text_w, prosp_width)
         IN  [sr |-> SizeReq(IF w.ellipsize THEN 1 ELSE height, height),
              w |-> w, ok |-> TRUE]

\* Widget::_get_preferred_size
Widget_get_preferred_size(w, dim, prosp_width) ==
    [sr |-> SizeReq(0, 0), w |-> w, ok |-> TRUE]

----------------------------------------------------------------------------
(* Results of calls, and vectors of them.  A member function that runs in  *)
(* several steps is written as one operator per step, each handing what it *)
(* computed to the next as an argument.                                    *)

\* The result of a measurement that an ASSERT ended
Failed(w) == [sr |-> SizeReq(0, 0), w |-> w, ok |-> FALSE, hit |-> FALSE]

\* The result of a placement that an ASSERT ended
Aborted(w) == [w |-> w, ok |-> FALSE]

\* The values returned by a vector of calls, and the widgets they leave
Reqs(rs) == [i \in 1..Len(rs) |-> rs[i].sr]
Kids(rs) == [i \in 1..Len(rs) |-> rs[i].w]
Mins(srs) == [i \in 1..Len(srs) |-> srs[i].min]
Nats(srs) == [i \in 1..Len(srs) |-> srs[i].nat]

RECURSIVE SeqMax(_)
\* The running maximum of the loops r = max(r, c), from 0
SeqMax(s) == IF s = << >> THEN 0 ELSE Max(Head(s), SeqMax(Tail(s)))

----------------------------------------------------------------------------
(* Box: distribution along the main axis and across it *)

\* sum_flex_grow of one round: the weights of the children below their
\* natural size.
sum_flex_grow(flex, ch_psz, ch_sz) ==
    SeqSum([i \in 1..Len(ch_sz) |->
               IF ch_sz[i] < ch_psz[i].nat THEN flex[i] ELSE 0])

\* ch_extra, had efg been flex_grow also for a child at its natural size
ch_extra_saturated(flex, ch_psz, ch_sz, extra, sfg, i) ==
    (extra * flex[i]) \div sfg

\* int ch_extra = extra * efg / sum_flex_grow, computed in float and
\* truncated; the operands are not negative, so it is the integer quotient.
ch_extra(flex, ch_psz, ch_sz, extra, sfg, i) ==
    (extra * (IF ch_sz[i] < ch_psz[i].nat THEN flex[i] ELSE 0)) \div sfg

\* taken, had it lacked the cap at the natural size
taken_uncapped(flex, ch_psz, ch_sz, extra, sfg, i) ==
    ch_extra(flex, ch_psz, ch_sz, extra, sfg, i)

\* int taken = min(ch_extra, ch_psz[i].nat - ch_sz[i])
taken(flex, ch_psz, ch_sz, extra, sfg, i) ==
    Min(ch_extra(flex, ch_psz, ch_sz, extra, sfg, i), ch_psz[i].nat - ch_sz[i])

\* The second for loop of the while body, given sum_flex_grow
distribute(flex, ch_psz, ch_sz, extra, sfg) ==
    [ ch_sz |-> [i \in 1..Len(ch_sz) |->
                    ch_sz[i] + taken(flex, ch_psz, ch_sz, extra, sfg, i)],
      extra |-> SeqSum([i \in 1..Len(ch_sz) |->
                    ch_extra(flex, ch_psz, ch_sz, extra, sfg, i)
                    - taken(flex, ch_psz, ch_sz, extra, sfg, i)]),
      ok    |-> \A i \in 1..Len(ch_sz) : ch_sz[i] <= ch_psz[i].nat ]

\* One round of the while loop that distributes
main_axis_round(flex, ch_psz, ch_sz, extra) ==
    distribute(flex, ch_psz, ch_sz, extra, sum_flex_grow(flex, ch_psz, ch_sz))

RECURSIVE main_axis_loop(_, _, _, _)

\* extra = remainder, and the next turn of the loop
main_axis_continue(flex, ch_psz, ch_sz, r) ==
    IF ~r.ok THEN [ch_sz |-> ch_sz, ok |-> FALSE]
    ELSE main_axis_loop(flex, ch_psz, r.ch_sz, r.extra)

\* while (extra > 0) { ... if (!sum_flex_grow) break; ... extra = remainder; }
main_axis_loop(flex, ch_psz, ch_sz, extra) ==
    IF extra <= 0 \/ sum_flex_grow(flex, ch_psz, ch_sz) = 0
    THEN [ch_sz |-> ch_sz, ok |-> TRUE]
    ELSE main_axis_continue(flex, ch_psz, ch_sz,
                            main_axis_round(flex, ch_psz, ch_sz, extra))

\* The first loop of Box::layout_main_axis: every child at its minimum.
main_axis_start(ch_psz, main_sz) ==
    [ ch_sz |-> Mins(ch_psz),
      extra |-> main_sz - SeqSum(Mins(ch_psz)),
      ok    |-> main_sz - SeqSum(Mins(ch_psz)) >= 0 ]

\* Box::layout_main_axis after its first loop
main_axis_from(flex, ch_psz, s) ==
    IF ~s.ok THEN [ch_sz |-> s.ch_sz, ok |-> FALSE]
    ELSE main_axis_loop(flex, ch_psz, s.ch_sz, s.extra)

\* Box::layout_main_axis; flex[i] is m_children[i]->flex_grow
layout_main_axis(flex, ch_psz, main_sz) ==
    main_axis_from(flex, ch_psz, main_axis_start(ch_psz, main_sz))

\* bool stretch of Box::layout_cross_axis
cross_stretch(align_self, align_items) ==
    IF align_self = "stretch" THEN TRUE ELSE align_items = "stretch"

\* Box::layout_cross_axis
layout_cross_axis(box, ch_psz, cross_sz) ==
    [i \in 1..Len(box.m_children) |->
        IF cross_stretch(box.m_children[i].align_self, box.align_items)
        THEN cross_sz
        ELSE Min(Max(ch_psz[i].min, cross_sz), ch_psz[i].nat)]

\* Align child_align of Box::_allocate_region
child_align(align_self, align_items) ==
    IF align_self # "inherit" THEN align_self
    ELSE IF align_items # "inherit" THEN align_items
    ELSE "start"

\* m_children[i]->flex_grow, for every child
FlexOf(w) == [i \in 1..Len(w.m_children) |-> w.m_children[i].flex_grow]

\* horz ? layout_main_axis(sr, sz) : layout_cross_axis(sr, sz)
box_widths(w, sr, sz) ==
    IF w.horz THEN layout_main_axis(FlexOf(w), sr, sz)
    ELSE [ch_sz |-> layout_cross_axis(w, sr, sz), ok |-> TRUE]

\* horz ? layout_cross_axis(sr, sz) : layout_main_axis(sr, sz)
box_heights(w, sr, sz) ==
    IF w.horz THEN [ch_sz |-> layout_cross_axis(w, sr, sz), ok |-> TRUE]
    ELSE layout_main_axis(FlexOf(w), sr, sz)

----------------------------------------------------------------------------
(* The sizing protocol *)

RECURSIVE get_preferred_size(_, _, _)

\* m_children[i]->get_preferred_size(dim, pws[i]), for every child
measure_children(children, dim, pws) ==
    [i \in 1..Len(children) |-> get_preferred_size(children[i], dim, pws[i])]

\* The prospective width of every horizontal call
NoWidths(children) == [i \in 1..Len(children) |-> -1]

\* Box::_get_preferred_size: the sum/max of preferred sizes, as appropriate
Box_sum_preferred(w, dim, c) ==
    IF ~AllOk(c) THEN Failed(w)
    ELSE [ sr |-> IF (dim = VERT) = ~w.horz
                  THEN SizeReq(SeqSum(Mins(Reqs(c))), SeqSum(Nats(Reqs(c))))
                  ELSE SizeReq(SeqMax(Mins(Reqs(c))), SeqMax(Nats(Reqs(c)))),
           w  |-> [w EXCEPT !.m_children = Kids(c)],
           ok |-> TRUE, hit |-> FALSE ]

\* Box::_get_preferred_size: the preferred heights, given the actual widths
Box_measure_heights(w, dim, h, cw) ==
    IF ~cw.ok THEN Failed(w)
    ELSE Box_sum_preferred(w, dim, measure_children(Kids(h), VERT, cw.ch_sz))

\* Box::_get_preferred_size: the actual widths, given the preferred widths h
Box_measure_widths(w, dim, prosp_width, h) ==
    IF ~AllOk(h) THEN Failed(w)
    ELSE IF dim = HORZ THEN Box_sum_preferred(w, dim, h)
    ELSE Box_measure_heights(w, dim, h, box_widths(w, Reqs(h), prosp_width))

\* Box::_get_preferred_size
Box_get_preferred_size(w, dim, prosp_width) ==
    Box_measure_widths(w, dim, prosp_width,
                       measure_children(w.m_children, HORZ, NoWidths(w.m_children)))

\* Stack::_get_preferred_size: the maxima over the children's requests c
Stack_max_preferred(w, c) ==
    IF ~AllOk(c) THEN Failed(w)
    ELSE [ sr |-> SizeReq(SeqMax(Mins(Reqs(c))), SeqMax(Nats(Reqs(c)))),
           w  |-> [w EXCEPT !.m_children = Kids(c)],
           ok |-> TRUE, hit |-> FALSE ]

\* Stack::_get_preferred_size
Stack_get_preferred_size(w, dim, prosp_width) ==
    Stack_max_preferred(w,
        measure_children(w.m_children, dim,
                         [i \in 1..Len(w.m_children) |-> prosp_width]))

----------------------------------------------------------------------------
(* Grid: tracks *)

\* struct track_info, as Grid::init_track_info's resize creates it
NewTrack(flex) == [size |-> 0, offset |-> 0, sr |-> SizeReq(0, 0), flex_grow |-> flex]

\* vector::resize(n) on a track array; flex[i] is the weight of a new track i
ResizeTracks(tracks, n, flex) ==
    [i \in 1..n |-> IF i <= Len(tracks) THEN tracks[i]
                    ELSE NewTrack(IF i <= Len(flex) THEN flex[i] ELSE 1)]

\* n_rows (a = 2) and n_cols (a = 1) of Grid::init_track_info
track_count(info, a) ==
    SeqMax([i \in 1..Len(info) |-> info[i].pos[a] + info[i].span[a]])

\* Grid::init_track_info
init_track_info(g) ==
    IF ~g.m_track_info_dirty THEN g
    ELSE [g EXCEPT !.m_track_info_dirty = FALSE,
                   !.m_row_info = ResizeTracks(@, track_count(g.m_child_info, 2),
                                               g.track_flex[2]),
                   !.m_col_info = ResizeTracks(@, track_count(g.m_child_info, 1),
                                               g.track_flex[1])]

\* Grid::get_tracks_region(x, y, w, h): the rectangle of a range of cells
get_tracks_region(g, x, y, w, h) ==
    << g.m_col_info[x + 1].offset,
       g.m_row_info[y + 1].offset,
       SeqSum([i \in 1..w |-> g.m_col_info[x + i].size]),
       SeqSum([i \in 1..h |-> g.m_row_info[y + i].size]) >>

\* get_tracks_region(cp[0], cp[1], cs[0], cs[1]) of child i
cell_region(g, i) ==
    get_tracks_region(g, g.m_child_info[i].pos[1], g.m_child_info[i].pos[2],
                      g.m_child_info[i].span[1], g.m_child_info[i].span[2])

\* The test of Grid::compute_track_sizereqs, had it looked at the span on
\* the axis being merged only
contributes_on_axis(cs, dim) == cs[dim + 1] = 1

\* The test of Grid::compute_track_sizereqs: does a child of span cs count
contributes(cs, dim) == cs[1] = 1 /\ cs[2] = 1

\* s.min = max(s.min, c.min); s.nat = max(s.nat, c.nat) on track t
merge_sizereq(track, t, c) ==
    [track EXCEPT ![t].sr = SizeReq(Max(@.min, c.min), Max(@.nat, c.nat))]

RECURSIVE merge_track_sizereqs(_, _, _, _, _)
\* The loop over the children of Grid::compute_track_sizereqs, from child i on
merge_track_sizereqs(track, info, c, dim, i) ==
    IF i > Len(info) THEN track
    ELSE merge_track_sizereqs(
             IF contributes(info[i].span, dim)
             THEN merge_sizereq(track, info[i].pos[dim + 1] + 1, c[i])
             ELSE track,
             info, c, dim, i + 1)

\* for (auto& t : track) t.sr = {0, 0}
reset_sizereqs(track) ==
    [t \in 1..Len(track) |-> [track[t] EXCEPT !.sr = SizeReq(0, 0)]]

\* Grid::compute_track_sizereqs, given the children's requests c
store_track_sizereqs(g, dim, c) ==
    IF ~AllOk(c) THEN Aborted(g)
    ELSE [ w |-> IF dim = VERT
                 THEN [g EXCEPT !.m_row_info =
                          merge_track_sizereqs(reset_sizereqs(@), g.m_child_info,
                                               Reqs(c), dim, 1),
                                !.m_children = Kids(c)]
                 ELSE [g EXCEPT !.m_col_info =
                          merge_track_sizereqs(reset_sizereqs(@), g.m_child_info,
                                               Reqs(c), dim, 1),
                                !.m_children = Kids(c)],
           ok |-> TRUE ]

\* Grid::compute_track_sizereqs
compute_track_sizereqs(g, dim) ==
    store_track_sizereqs(g, dim,
        measure_children(g.m_children, dim,
            [i \in 1..Len(g.m_children) |->
                IF dim = VERT THEN cell_region(g, i)[3] ELSE -1]))

\* Grid::set_track_offsets, had it added the size before storing the offset
set_track_offsets_after(tracks) ==
    [i \in 1..Len(tracks) |->
        [tracks[i] EXCEPT !.offset = SeqSum([j \in 1..i |-> tracks[j].size])]]

\* Grid::set_track_offsets
set_track_offsets(tracks) ==
    [i \in 1..Len(tracks) |->
        [tracks[i] EXCEPT !.offset = SeqSum([j \in 1..(i - 1) |-> tracks[j].size])]]

\* Grid::layout_track on a track array.  float extra = (size - sr.min) /
\* sum_flex_grow and size = sr.min + extra*flex_grow truncate to the integer
\* quotient below for the weights of this model (their sum stays under 7).
size_tracks(infos, extra, sfg) ==
    [i \in 1..Len(infos) |->
        [infos[i] EXCEPT !.size =
            infos[i].sr.min +
            (IF sfg > 0 THEN (extra * infos[i].flex_grow) \div sfg ELSE 0)]]

\* sum_flex_grow of Grid::layout_track
track_flex_sum(infos) == SeqSum([i \in 1..Len(infos) |-> infos[i].flex_grow])

\* Grid::layout_track
layout_track(g, dim, sr, size) ==
    IF size - sr.min < 0 THEN Aborted(g)
    ELSE [ w |-> IF dim = VERT
                 THEN [g EXCEPT !.m_row_info =
                          size_tracks(@, size - sr.min, track_flex_sum(@))]
                 ELSE [g EXCEPT !.m_col_info =
                          size_tracks(@, size - sr.min, track_flex_sum(@))],
           ok |-> TRUE ]

\* total width (height) min and nat
track_total(infos) ==
    SizeReq(SeqSum([i \in 1..Len(infos) |-> infos[i].sr.min]),
            SeqSum([i \in 1..Len(infos) |-> infos[i].sr.nat]))

\* Grid::_get_preferred_size: the total height, given the row tracks
Grid_total_height(w, c2) ==
    IF ~c2.ok THEN Failed(w)
    ELSE [sr |-> track_total(c2.w.m_row_info), w |-> c2.w, ok |-> TRUE, hit |-> FALSE]

\* Grid::_get_preferred_size: the row tracks, given the laid out columns
Grid_measure_rows(w, l1) ==
    IF ~l1.ok THEN Failed(w)
    ELSE Grid_total_height(w,
             compute_track_sizereqs(
                 [l1.w EXCEPT !.m_col_info = set_track_offsets(@)], VERT))

\* Grid::_get_preferred_size: the total width, given the column tracks
Grid_total_width(w, dim, prosp_width, c1) ==
    IF ~c1.ok THEN Failed(w)
    ELSE IF dim = HORZ
    THEN [sr |-> track_total(c1.w.m_col_info), w |-> c1.w, ok |-> TRUE, hit |-> FALSE]
    ELSE Grid_measure_rows(w,
             layout_track(c1.w, HORZ, track_total(c1.w.m_col_info), prosp_width))

\* Grid::_get_preferred_size
Grid_get_preferred_size(w, dim, prosp_width) ==
    Grid_total_width(w, dim, prosp_width,
                     compute_track_sizereqs(init_track_info(w), HORZ))

----------------------------------------------------------------------------
(* Widget::get_preferred_size *)

\* The virtual call to _get_preferred_size
hook_get_preferred_size(w, dim, prosp_width) ==
    CASE w.kind = "box"   -> Box_get_preferred_size(w, dim, prosp_width)
      [] w.kind = "stack" -> Stack_get_preferred_size(w, dim, prosp_width)
      [] w.kind = "grid"  -> Grid_get_preferred_size(w, dim, prosp_width)
      [] w.kind = "text"  -> Text_get_preferred_size(w, dim, prosp_width)
      [] OTHER            -> Widget_get_preferred_size(w, dim, prosp_width)

\* The test that answers from the cache
cache_hit(w, dim, prosp_width) ==
    w.cached_sr_valid[dim + 1] /\ (dim = HORZ \/ w.cached_sr_pw = prosp_width)

\* prosp_width = dim ? prosp_width - margin[1] - margin[3] : prosp_width
inner_width(w, dim, prosp_width) ==
    IF dim = VERT THEN prosp_width - w.margin[2] - w.margin[4] ELSE prosp_width

\* ret, from the hook's SizeReq: the margins, expand and shrink, the clamp
finish_sizereq(w, dim, sr) ==
    SizeReq(sr.min + w.margin[(1 - dim) + 1] + w.margin[(3 - dim) + 1],
            Min(IF (IF dim = VERT THEN w.expand_v ELSE w.expand_h)
                THEN ui_expand_sz
                ELSE IF (IF dim = VERT THEN w.shrink_v ELSE w.shrink_h)
                THEN sr.min + w.margin[(1 - dim) + 1] + w.margin[(3 - dim) + 1]
                ELSE sr.nat + w.margin[(1 - dim) + 1] + w.margin[(3 - dim) + 1],
                ui_expand_sz))

\* Widget::get_preferred_size from the hook's result r on: the asserts, ret,
\* and the cache, whose key is prosp_width with the margins already taken off
store_preferred_size(w, dim, prosp_width, r) ==
    IF ~r.ok \/ r.sr.min > r.sr.nat
       \/ ( (IF dim = VERT THEN w.expand_v ELSE w.expand_h)
            /\ (IF dim = VERT THEN w.shrink_v ELSE w.shrink_h) )
    THEN Failed(w)
    ELSE [ sr  |-> finish_sizereq(w, dim, r.sr),
           w   |-> [r.w EXCEPT !.cached_sr_valid[dim + 1] = TRUE,
                               !.cached_sr[dim + 1] = finish_sizereq(w, dim, r.sr),
                               !.cached_sr_pw = IF dim = VERT
                                                THEN inner_width(w, dim, prosp_width)
                                                ELSE @],
           ok  |-> TRUE,
           hit |-> FALSE ]

\* Widget::get_preferred_size.  hit says that the cached value was returned.
get_preferred_size(w, dim, prosp_width) ==
    IF (dim = HORZ) # (prosp_width = -1) THEN Failed(w)
    ELSE IF cache_hit(w, dim, prosp_width)
    THEN [sr |-> w.cached_sr[dim + 1], w |-> w, ok |-> TRUE, hit |-> TRUE]
    ELSE store_preferred_size(w, dim, prosp_width,
             hook_get_preferred_size(w, dim, inner_width(w, dim, prosp_width)))

----------------------------------------------------------------------------
(* Allocation *)

RECURSIVE allocate_region(_, _)

\* m_children[i]->allocate_region(regions[i]), for every child
allocate_children(children, regions) ==
    [i \in 1..Len(children) |-> allocate_region(children[i], regions[i])]

\* A container once its children are placed
placed(w, a) ==
    IF ~AllOk(a) THEN Aborted(w)
    ELSE [w |-> [w EXCEPT !.m_children = Kids(a)], ok |-> TRUE]

\* enum Box::Justify, as the offset formula (justify_items - START)/2 reads it
justify_index(j) == CASE j = "start" -> 0 [] j = "center" -> 1 [] j = "end" -> 2

\* The cross-axis offset xo that the switch of Box::_allocate_region picks
cross_offset(align, extra_cross_space) ==
    CASE align = "start"   -> 0
      [] align = "center"  -> extra_cross_space \div 2
      [] align = "end"     -> extra_cross_space
      [] align = "stretch" -> 0

\* int extra_main_space = m_region[horz ? 2 : 3] - accumulate(m)
extra_main_space(w, cw, ch) ==
    IF w.horz THEN w.m_region[3] - SeqSum(cw) ELSE w.m_region[4] - SeqSum(ch)

\* The rectangle cr that child i is given; mo is the main axis offset
child_region(w, cw, ch, mo, i) ==
    IF w.horz
    THEN << w.m_region[1] + mo + SeqSum([j \in 1..(i - 1) |-> cw[j]]),
            w.m_region[2]
              + cross_offset(child_align(w.m_children[i].align_self, w.align_items),
                             w.m_region[4] - ch[i]),
            cw[i], ch[i] >>
    ELSE << w.m_region[1]
              + cross_offset(child_align(w.m_children[i].align_self, w.align_items),
                             w.m_region[3] - cw[i]),
            w.m_region[2] + mo + SeqSum([j \in 1..(i - 1) |-> ch[j]]),
            cw[i], ch[i] >>

\* Box::_allocate_region: the placement loop, given the actual sizes
Box_place(w, kids, cw, ch) ==
    IF ~ch.ok THEN Aborted(w)
    ELSE IF extra_main_space(w, cw, ch.ch_sz) < 0 THEN Aborted(w)
    ELSE placed(w,
             allocate_children(kids,
                 [i \in 1..Len(kids) |->
                     child_region(w, cw, ch.ch_sz,
                         (extra_main_space(w, cw, ch.ch_sz)
                            * justify_index(w.justify_items)) \div 2,
                         i)]))

\* Box::_allocate_region: the actual heights, given the preferred heights v
Box_actual_heights(w, cw, v) ==
    IF ~AllOk(v) THEN Aborted(w)
    ELSE Box_place(w, Kids(v), cw, box_heights(w, Reqs(v), w.m_region[4]))

\* Box::_allocate_region: the preferred heights, given the actual widths cw
Box_preferred_heights(w, h, cw) ==
    IF ~cw.ok THEN Aborted(w)
    ELSE Box_actual_heights(w, cw.ch_sz, measure_children(Kids(h), VERT, cw.ch_sz))

\* Box::_allocate_region: the actual widths, given the preferred widths h
Box_actual_widths(w, h) ==
    IF ~AllOk(h) THEN Aborted(w)
    ELSE Box_preferred_heights(w, h, box_widths(w, Reqs(h), w.m_region[3]))

\* Box::_allocate_region
Box_allocate_region(w) ==
    Box_actual_widths(w, measure_children(w.m_children, HORZ, NoWidths(w.m_children)))

\* cr[2] = min(max(pw.min, m_region[2]), pw.nat), and likewise cr[3]
stack_clamp(c, sz) == [i \in 1..Len(c) |-> Min(Max(c[i].sr.min, sz), c[i].sr.nat)]

\* Stack::_allocate_region: the rectangles, given the heights ph
Stack_place(w, c2, ph) ==
    IF ~AllOk(ph) THEN Aborted(w)
    ELSE placed(w,
             allocate_children(Kids(ph),
                 [i \in 1..Len(ph) |->
                     << w.m_region[1], w.m_region[2], c2[i],
                        stack_clamp(ph, w.m_region[4])[i] >>]))

\* Stack::_allocate_region: the heights, given the widths pw
Stack_heights(w, pw) ==
    IF ~AllOk(pw) THEN Aborted(w)
    ELSE Stack_place(w, stack_clamp(pw, w.m_region[3]),
                     measure_children(Kids(pw), VERT, stack_clamp(pw, w.m_region[3])))

\* Stack::_allocate_region
Stack_allocate_region(w) ==
    Stack_heights(w, measure_children(w.m_children, HORZ, NoWidths(w.m_children)))

\* Grid::_allocate_region: the loop over the children
Grid_place(w, g) ==
    placed(g,
        allocate_children(g.m_children,
            [i \in 1..Len(g.m_children) |->
                << cell_region(g, i)[1] + w.m_region[1],
                   cell_region(g, i)[2] + w.m_region[2],
                   cell_region(g, i)[3], cell_region(g, i)[4] >>]))

\* Grid::_allocate_region: set_track_offsets(m_row_info), given the rows
Grid_offset_rows(w, l) ==
    IF ~l.ok THEN Aborted(w)
    ELSE Grid_place(w, [l.w EXCEPT !.m_row_info = set_track_offsets(@)])

\* Grid::_allocate_region: layout_track(VERT, h_sr, m_region[3])
Grid_layout_rows(w, p) ==
    IF ~p.ok THEN Aborted(w)
    ELSE Grid_offset_rows(w, layout_track(p.w, VERT, p.sr, w.m_region[4]))

\* Grid::_allocate_region
Grid_allocate_region(w) ==
    \* Use of _-prefixed member function is necessary here
    Grid_layout_rows(w, Grid_get_preferred_size(w, VERT, w.m_region[3]))

\* The virtual call to _allocate_region (Widget's and Text's place nothing)
hook_allocate_region(w) ==
    CASE w.kind = "box"   -> Box_allocate_region(w)
      [] w.kind = "stack" -> Stack_allocate_region(w)
      [] w.kind = "grid"  -> Grid_allocate_region(w)
      [] OTHER            -> [w |-> w, ok |-> TRUE]

\* m_region of Widget::allocate_region
inner_region(w, region) ==
    << region[1] + w.margin[4],
       region[2] + w.margin[1],
       region[3] - w.margin[4] - w.margin[2],
       region[4] - w.margin[1] - w.margin[3] >>

\* Widget::allocate_region
allocate_region(w, region) ==
    IF inner_region(w, region)[3] < 0 \/ inner_region(w, region)[4] < 0
    THEN Aborted(w)
    ELSE hook_allocate_region([w EXCEPT !.m_region = inner_region(w, region)])

\* The rectangle allocate_region was last called with: m_region with the
\* margins put back.
allocated(w) ==
    << w.m_region[1] - w.margin[4],
       w.m_region[2] - w.margin[1],
       w.m_region[3] + w.margin[4] + w.margin[2],
       w.m_region[4] + w.margin[1] + w.margin[3] >>

RECURSIVE Widgets(_)
\* A widget and all its descendants
Widgets(w) ==
    {w} \cup UNION {Widgets(w.m_children[i]) : i \in 1..Len(w.m_children)}

----------------------------------------------------------------------------
(* UIRoot: the driver *)

\* The most children the root stack holds in this model
MaxRootChildren == 2

\* The extents a resize, or the terminal, may report
Views == {<<4, 2>>, <<40, 1>>}

\* The widget trees the host pushes
TextM == WithMargin(Text(6, TRUE), <<0, 1, 0, 1>>)
BoxV  == Box_add_child(Box_add_child(NewBox(FALSE, "inherit"),
                                     Text(3, FALSE)),
                       WithAlign(Text(2, FALSE), "center"))
BoxH  == Box_add_child(Box_add_child(NewBox(TRUE, "stretch"),
                                     WithFlex(BoxV, 0)),
                       Text(6, TRUE))
GridSpan ==
    Grid_add_child(Grid_add_child(Grid_add_child(Grid_add_child(
        NewGrid(<<1, 0, 0>>, <<1, 1>>),
        Text(10, TRUE),  0, 0, 1, 1),
        Text(20, FALSE), 1, 0, 1, 1),
        Text(5, FALSE),  2, 0, 1, 1),
        Text(40, FALSE), 0, 1, 3, 1)
Pushed == {TextM, BoxH, GridSpan}

\* UIRoot::resize, had it lacked its early return
UIRoot_resize_always(r, w, h) == [m_w |-> w, m_h |-> h, m_dirty |-> TRUE]

\* UIRoot::resize, on the fields it reads and writes
UIRoot_resize(r, w, h) ==
    IF w = r.m_w /\ h = r.m_h THEN r
    ELSE [m_w |-> w, m_h |-> h, m_dirty |-> TRUE]

\* UIRoot::layout: the pass is over
layout_done(root, width, height, a) ==
    IF ~a.ok THEN [w |-> root, ok |-> FALSE, width |-> 0, height |-> 0]
    ELSE [w |-> a.w, ok |-> TRUE, width |-> width, height |-> height]

\* UIRoot::layout: int height = max(sr_vert.min, m_h), and the allocation
layout_allocate(root, vh, width, sr_vert) ==
    IF ~sr_vert.ok THEN [w |-> root, ok |-> FALSE, width |-> 0, height |-> 0]
    ELSE layout_done(root, width, Max(sr_vert.sr.min, vh),
             allocate_region(sr_vert.w, <<0, 0, width, Max(sr_vert.sr.min, vh)>>))

\* UIRoot::layout: int width = max(sr_horz.min, m_w), and sr_vert
layout_vert(root, vw, vh, sr_horz) ==
    IF ~sr_horz.ok THEN [w |-> root, ok |-> FALSE, width |-> 0, height |-> 0]
    ELSE layout_allocate(root, vh, Max(sr_horz.sr.min, vw),
             get_preferred_size(sr_horz.w, VERT, Max(sr_horz.sr.min, vw)))

\* UIRoot::layout past its dirty test: the measurement and the allocation
UIRoot_layout_pass(root, vw, vh) ==
    layout_vert(root, vw, vh, get_preferred_size(root, HORZ, -1))

RootInit ==
    /\ USE_TILE_LOCAL \in BOOLEAN
    /\ m_root = NewStack
    /\ m_w = 0 /\ m_h = 0
    /\ root_region = <<0, 0, 0, 0>>
    /\ m_dirty = FALSE
    /\ last_op = "none" /\ mutated = FALSE /\ laid_out = FALSE /\ crashed = FALSE

\* push_layout -> UIRoot::push_child.  The console build resizes to the
\* terminal's extent when the pushed child is the only one.
push_layout(child) ==
    /\ ~crashed
    /\ Len(m_root.m_children) < MaxRootChildren
    /\ m_root' = Stack_add_child(m_root, child)
    /\ IF ~USE_TILE_LOCAL /\ Len(m_root'.m_children) = 1
       THEN \E e \in Views :
               LET r == UIRoot_resize([m_w |-> m_w, m_h |-> m_h, m_dirty |-> TRUE], e[1], e[2])
               IN  m_w' = r.m_w /\ m_h' = r.m_h /\ m_dirty' = r.m_dirty
       ELSE m_dirty' = TRUE /\ UNCHANGED << m_w, m_h >>
    /\ last_op' = "push" /\ mutated' = TRUE
    /\ UNCHANGED << USE_TILE_LOCAL, root_region, laid_out, crashed >>
    /\ UNCHANGED << sizeVars, mainVars, crossVars, stackVars >>

\* pop_layout -> UIRoot::pop_child
pop_layout ==
    /\ ~crashed
    /\ m_root' = Stack_pop_child(m_root)
    /\ m_dirty' = TRUE
    /\ last_op' = "pop" /\ mutated' = TRUE
    /\ UNCHANGED << USE_TILE_LOCAL, m_w, m_h, root_region, laid_out, crashed >>
    /\ UNCHANGED << sizeVars, mainVars, crossVars, stackVars >>

\* resize -> UIRoot::resize
resize(w, h) ==
    /\ ~crashed
    /\ LET r == UIRoot_resize([m_w |-> m_w, m_h |-> m_h, m_dirty |-> m_dirty], w, h)
       IN  m_w' = r.m_w /\ m_h' = r.m_h /\ m_dirty' = r.m_dirty
    /\ last_op' = "resize"
    /\ mutated' = (mutated \/ <<w, h>> # <<m_w, m_h>>)
    /\ UNCHANGED << USE_TILE_LOCAL, m_root, root_region, laid_out, crashed >>
    /\ UNCHANGED << sizeVars, mainVars, crossVars, stackVars >>

\* UIRoot::layout
layout ==
    /\ ~crashed
    /\ IF ~m_dirty
       THEN /\ last_op' = "layout_noop"
            /\ UNCHANGED << m_root, root_region, m_dirty, mutated, laid_out, crashed >>
       ELSE \E p \in {UIRoot_layout_pass(m_root, m_w, m_h)} :
                /\ m_dirty' = FALSE
                /\ IF p.ok
                   THEN /\ m_root' = p.w
                        /\ root_region' = IF USE_TILE_LOCAL
                                          THEN <<0, 0, p.width, p.height>>
                                          ELSE <<0, 0, m_w, m_h>>
                        /\ last_op' = "layout_work"
                        /\ mutated' = FALSE /\ laid_out' = TRUE
                        /\ UNCHANGED crashed
                   ELSE /\ crashed' = TRUE
                        /\ last_op' = "layout_abort"
                        /\ UNCHANGED << m_root, root_region, mutated, laid_out >>
    /\ UNCHANGED << USE_TILE_LOCAL, m_w, m_h >>
    /\ UNCHANGED << sizeVars, mainVars, crossVars, stackVars >>

----------------------------------------------------------------------------
(* The parts of the state each specification leaves alone *)

NoCall == [called |-> FALSE, dim |-> HORZ, pw |-> -1, sr |-> SizeReq(0, 0), hit |-> FALSE]
NoneComputed == [pw |-> -1, horz_known |-> FALSE, horz |-> SizeReq(0, 0)]

SizeIdle  == sz_widget = Leaf /\ sz_last = NoCall /\ sz_computed = NoneComputed
             /\ sz_crashed = FALSE
MainIdle  == bm_flex = << >> /\ bm_psz = << >> /\ bm_main_sz = 0 /\ bm_ch_sz = << >>
             /\ bm_extra = 0 /\ bm_pc = "idle"
CrossIdle == bc_box = Leaf /\ bc_psz = << >> /\ bc_cross_sz = 0 /\ bc_ch_sz = << >>
             /\ bc_align = << >> /\ bc_pc = "idle"
StackIdle == st_stack = NewStack /\ st_log = << >>
RootIdle  == USE_TILE_LOCAL = FALSE /\ m_root = NewStack /\ m_w = 0 /\ m_h = 0
             /\ root_region = <<0, 0, 0, 0>> /\ m_dirty = FALSE
             /\ last_op = "none" /\ mutated = FALSE /\ laid_out = FALSE /\ crashed = FALSE

----------------------------------------------------------------------------
(* The driver under push_layout, pop_layout, resize and layout calls *)

Init == RootInit /\ SizeIdle /\ MainIdle /\ CrossIdle /\ StackIdle

Next ==
    \/ \E child \in Pushed : push_layout(child)
    \/ pop_layout
    \/ \E e \in Views : resize(e[1], e[2])
    \/ layout

Spec == Init /\ [][Next]_vars

----------------------------------------------------------------------------
(* One widget under a sequence of get_preferred_size calls *)

\* The widest prospective width a call passes
MaxProspWidth == 5

\* Widgets whose sizes reach the sentinel
HalfSentinel == (ui_expand_sz + 1) \div 2
TextHuge == WithMargin(Text(ui_expand_sz, FALSE), <<0, 1, 0, 0>>)
BoxHuge  == Box_add_child(Box_add_child(NewBox(TRUE, "start"),
                                        Text(HalfSentinel, FALSE)),
                          Text(HalfSentinel, FALSE))

Measured ==
    { Leaf, TextM, BoxH, GridSpan, TextHuge, BoxHuge,
      Stack_add_child(Stack_add_child(NewStack, TextM), Text(3, FALSE)),
      WithMargin(WithExpand(Text(3, FALSE), TRUE, FALSE), <<1, 0, 1, 2>>),
      WithMargin(WithShrink(Text(6, TRUE), TRUE, TRUE), <<0, 1, 0, 0>>) }

SizeInit ==
    /\ sz_widget \in Measured
    /\ sz_last = NoCall /\ sz_computed = NoneComputed /\ sz_crashed = FALSE

\* A call sz_widget.get_preferred_size(dim, p).  sz_computed keeps the
\* prospective width the vertical value in the cache was computed for, and
\* the value the first horizontal call returned.
measure(dim, p) ==
    /\ ~sz_crashed
    /\ \E r \in {get_preferred_size(sz_widget, dim, p)} :
           IF r.ok
           THEN /\ sz_widget' = r.w
                /\ sz_last' = [called |-> TRUE, dim |-> dim, pw |-> p,
                               sr |-> r.sr, hit |-> r.hit]
                /\ sz_computed' =
                      IF dim = VERT /\ ~r.hit THEN [sz_computed EXCEPT !.pw = p]
                      ELSE IF dim = HORZ /\ ~sz_computed.horz_known
                      THEN [sz_computed EXCEPT !.horz_known = TRUE, !.horz = r.sr]
                      ELSE sz_computed
                /\ UNCHANGED sz_crashed
           ELSE /\ sz_crashed' = TRUE
                /\ UNCHANGED << sz_widget, sz_last, sz_computed >>
    /\ UNCHANGED << rootVars, mainVars, crossVars, stackVars >>

measure_horz == measure(HORZ, -1)
measure_vert == \E p \in 0..MaxProspWidth : measure(VERT, p)

InitSize == SizeInit /\ RootIdle /\ MainIdle /\ CrossIdle /\ StackIdle
NextSize == measure_horz \/ measure_vert
SpecSize == InitSize /\ [][NextSize]_vars

----------------------------------------------------------------------------
(* Box::layout_main_axis, one step per round of the while loop *)

MaxBoxChildren == 2
MaxExtra == 3
ChildMins  == {0, 1}
ChildGaps  == {0, 1, 2}
FlexGrows  == {0, 1, 2}

\* Box: minimums [10,20,30], flex_grow [1,0,1], budget 100 (naturals large)
ExamplePsz  == << SizeReq(10, 60), SizeReq(20, 60), SizeReq(30, 60) >>
ExampleFlex == << 1, 0, 1 >>

MainInit ==
    /\ \/ \E n \in 1..MaxBoxChildren :
             /\ bm_psz \in [1..n -> {SizeReq(mn, mn + g) : mn \in ChildMins, g \in ChildGaps}]
             /\ bm_flex \in [1..n -> FlexGrows]
             /\ \E e \in (-1)..MaxExtra :
                   bm_main_sz = SeqSum([i \in 1..n |-> bm_psz[i].min]) + e
       \/ bm_psz = ExamplePsz /\ bm_flex = ExampleFlex /\ bm_main_sz = 100
    /\ bm_ch_sz = << >> /\ bm_extra = 0 /\ bm_pc = "start"

\* The first loop and ASSERT(extra >= 0)
box_start ==
    /\ bm_pc = "start"
    /\ LET s == main_axis_start(bm_psz, bm_main_sz)
       IN  /\ bm_ch_sz' = s.ch_sz
           /\ bm_extra' = s.extra
           /\ bm_pc' = IF s.ok THEN "loop" ELSE "abort"
    /\ UNCHANGED << bm_flex, bm_psz, bm_main_sz >>
    /\ UNCHANGED << rootVars, sizeVars, crossVars, stackVars >>

\* One round of the while loop that does not leave it
box_round ==
    /\ bm_pc = "loop"
    /\ bm_extra > 0
    /\ sum_flex_grow(bm_flex, bm_psz, bm_ch_sz) # 0
    /\ LET r == main_axis_round(bm_flex, bm_psz, bm_ch_sz, bm_extra)
       IN  /\ bm_ch_sz' = r.ch_sz
           /\ bm_extra' = r.extra
           /\ bm_pc' = IF r.ok THEN "loop" ELSE "abort"
    /\ UNCHANGED << bm_flex, bm_psz, bm_main_sz >>
    /\ UNCHANGED << rootVars, sizeVars, crossVars, stackVars >>

\* The loop ends (extra is 0, or the break) and ch_sz is returned
box_return ==
    /\ bm_pc = "loop"
    /\ bm_extra <= 0 \/ sum_flex_grow(bm_flex, bm_psz, bm_ch_sz) = 0
    /\ bm_pc' = "done"
    /\ UNCHANGED << bm_flex, bm_psz, bm_main_sz, bm_ch_sz, bm_extra >>
    /\ UNCHANGED << rootVars, sizeVars, crossVars, stackVars >>

InitMain == MainInit /\ RootIdle /\ SizeIdle /\ CrossIdle /\ StackIdle
NextMain == box_start \/ box_round \/ box_return
SpecMain == InitMain /\ [][NextMain]_vars

----------------------------------------------------------------------------
(* Box::layout_cross_axis, then the alignment Box::_allocate_region uses *)

MaxCrossChildren == 2
MaxCross == 3
CrossReqs == {SizeReq(0, 1), SizeReq(1, 2), SizeReq(2, 2)}

CrossInit ==
    /\ \E n \in 1..MaxCrossChildren, items \in Aligns :
          \E selfs \in [1..n -> Aligns] :
             bc_box = [NewBox(TRUE, items) EXCEPT
                          !.m_children = [i \in 1..n |-> WithAlign(Leaf, selfs[i])]]
    /\ bc_psz \in [1..Len(bc_box.m_children) -> CrossReqs]
    /\ bc_cross_sz \in 0..MaxCross
    /\ bc_ch_sz = << >> /\ bc_align = << >> /\ bc_pc = "start"

\* vector<int> ch = layout_cross_axis(sr, m_region[3])
cross_size ==
    /\ bc_pc = "start"
    /\ bc_ch_sz' = layout_cross_axis(bc_box, bc_psz, bc_cross_sz)
    /\ bc_pc' = "sized"
    /\ UNCHANGED << bc_box, bc_psz, bc_cross_sz, bc_align >>
    /\ UNCHANGED << rootVars, sizeVars, mainVars, stackVars >>

\* Align child_align = ..., for every child of the placement loop
cross_place ==
    /\ bc_pc = "sized"
    /\ bc_align' = [i \in 1..Len(bc_box.m_children) |->
                       child_align(bc_box.m_children[i].align_self, bc_box.align_items)]
    /\ bc_pc' = "placed"
    /\ UNCHANGED << bc_box, bc_psz, bc_cross_sz, bc_ch_sz >>
    /\ UNCHANGED << rootVars, sizeVars, mainVars, stackVars >>

InitCross == CrossInit /\ RootIdle /\ SizeIdle /\ MainIdle /\ StackIdle
NextCross == cross_size \/ cross_place
SpecCross == InitCross /\ [][NextCross]_vars

----------------------------------------------------------------------------
(* A Stack under add_child and pop_child calls *)

\* The calls made on the stack, and the children there are to add
MaxCalls == 4
StackKids == 3

add_child(c) ==
    /\ Len(st_log) < MaxCalls
    /\ st_stack' = Stack_add_child(st_stack, c)
    /\ st_log' = Append(st_log, <<"add_child", c>>)
    /\ UNCHANGED << rootVars, sizeVars, mainVars, crossVars >>

pop_child ==
    /\ Len(st_log) < MaxCalls
    /\ st_stack' = Stack_pop_child(st_stack)
    /\ st_log' = Append(st_log, <<"pop_child", 0>>)
    /\ UNCHANGED << rootVars, sizeVars, mainVars, crossVars >>

InitStack == StackIdle /\ RootIdle /\ SizeIdle /\ MainIdle /\ CrossIdle
NextStack == (\E c \in 1..StackKids : add_child(c)) \/ pop_child
SpecStack == InitStack /\ [][NextStack]_vars

----------------------------------------------------------------------------
(* Properties.  What a widget asks for is measured on a copy with nothing  *)
(* cached, so that a stale cache cannot vouch for itself.                  *)

RECURSIVE Uncached(_)
\* A widget and its descendants with every cached SizeReq invalidated
Uncached(w) ==
    [w EXCEPT !.cached_sr_valid = <<FALSE, FALSE>>,
              !.m_children = [i \in 1..Len(@) |-> Uncached(@[i])]]

\* get_preferred_size(dim, pw) of w, measured afresh
Measure(w, dim, pw) == get_preferred_size(Uncached(w), dim, pw)

\* The grids of the tree under the root
Grids == {g \in Widgets(m_root) : g.kind = "grid"}

\* The track array of an axis
TracksOf(g, dim) == IF dim = VERT THEN g.m_row_info ELSE g.m_col_info

\* The field-wise maximum, from {0, 0}, of what the children in S asked for
MaxOver(g, dim, S) ==
    SizeReq(SeqMax([i \in 1..Len(g.m_children) |->
                       IF i \in S THEN g.m_children[i].cached_sr[dim + 1].min ELSE 0]),
            SeqMax([i \in 1..Len(g.m_children) |->
                       IF i \in S THEN g.m_children[i].cached_sr[dim + 1].nat ELSE 0]))

RECURSIVE Replay(_)
\* The list a log of calls describes: append on add_child, drop the last
\* element on pop_child, nothing on pop_child of the empty list
Replay(log) ==
    IF log = << >> THEN << >>
    ELSE IF log[Len(log)][1] = "add_child"
    THEN Append(Replay(SubSeq(log, 1, Len(log) - 1)), log[Len(log)][2])
    ELSE IF Replay(SubSeq(log, 1, Len(log) - 1)) = << >> THEN << >>
    ELSE SubSeq(Replay(SubSeq(log, 1, Len(log) - 1)), 1,
                Len(Replay(SubSeq(log, 1, Len(log) - 1))) - 1)

\* C1: a layout call measures and allocates exactly when a push_layout, a
\* pop_layout or a resize to a different extent happened since the last
\* layout call that did work (or since start-up); so a layout call right
\* after a layout call does nothing, and a resize to the stored extent does
\* not make the next layout call work.
C1_DirtyTracking ==
    [][ /\ (last_op' = "layout_noop" => ~mutated)
        /\ (last_op' \in {"layout_work", "layout_abort"} => mutated)
        /\ (last_op \in {"layout_work", "layout_noop"}
              /\ last_op' \in {"layout_noop", "layout_work", "layout_abort"}
              => last_op' = "layout_noop") ]_vars

\* C1: a layout call found nothing to do, after an earlier one had laid
\* out a child at the stored extent
C1_NoopAfterWork ==
    /\ last_op = "layout_noop" /\ laid_out /\ ~mutated
    /\ Len(m_root.m_children) > 0
    /\ root_region[3] = m_w /\ m_w > 0

\* C2: after a completed layout pass every widget under the root was given
\* a rectangle at least as wide as its horizontal minimum and at least as
\* high as its vertical minimum at that width, Grid children of span > 1
\* included.
C2_MinimumSize ==
    last_op = "layout_work" =>
        \A w \in Widgets(m_root) \ {m_root} :
            /\ allocated(w)[3] >= Measure(w, HORZ, -1).sr.min
            /\ Measure(w, VERT, allocated(w)[3]).ok
                  => allocated(w)[4] >= Measure(w, VERT, allocated(w)[3]).sr.min

\* C2: a pass completed in which a Grid child spanning three columns was
\* given less than its minimum width
C2_SpanningChildSqueezed ==
    /\ last_op = "layout_work"
    /\ \E g \in Grids : \E i \in 1..Len(g.m_children) :
          /\ g.m_child_info[i].span = <<3, 1>>
          /\ allocated(g.m_children[i])[3] = 35
          /\ Measure(g.m_children[i], HORZ, -1).sr.min = 40

\* C3: when Box::layout_main_axis returns, the sizes add up to the budget,
\* or every child of positive flex_grow is at its natural size; and in the
\* example (minimums 10, 20, 30, flex_grow 1, 0, 1, budget 100) the sizes
\* add up to 100 and the second child stays at 20.
C3_NoSpaceDropped ==
    bm_pc = "done" =>
        /\ \/ SeqSum(bm_ch_sz) = bm_main_sz
           \/ \A i \in 1..Len(bm_ch_sz) :
                 bm_flex[i] > 0 => bm_ch_sz[i] = bm_psz[i].nat
        /\ bm_psz = ExamplePsz /\ bm_flex = ExampleFlex /\ bm_main_sz = 100
              => SeqSum(bm_ch_sz) = 100 /\ bm_ch_sz[2] = 20

\* C3: two children of equal weight and one unit to share: the unit is lost
C3_UnitLost ==
    /\ bm_pc = "done"
    /\ bm_psz = << SizeReq(0, 1), SizeReq(0, 1) >> /\ bm_flex = <<1, 1>>
    /\ bm_main_sz = 1
    /\ bm_ch_sz = <<0, 0>>

\* C3: the example returns 30, 20, 50
C3_Example ==
    /\ bm_pc = "done"
    /\ bm_psz = ExamplePsz /\ bm_flex = ExampleFlex /\ bm_main_sz = 100
    /\ bm_ch_sz = <<30, 20, 50>>

\* C4: a vertical call answered from the cache has the prospective width
\* the cached value was computed for, and a horizontal call returns what
\* the first horizontal call returned.
C4_CacheKeyExact ==
    sz_last.called =>
        /\ sz_last.dim = VERT /\ sz_last.hit => sz_last.pw = sz_computed.pw
        /\ sz_last.dim = HORZ /\ sz_computed.horz_known
              => sz_last.sr = sz_computed.horz

\* C4: a text of 6 characters with a left and a right margin of 1 was
\* measured for the width 5, and the call for the width 3 was answered with
\* that value
C4_WrongWidthHit ==
    /\ sz_last.called /\ sz_last.dim = VERT /\ sz_last.hit
    /\ sz_widget.kind = "text" /\ sz_widget.margin = <<0, 1, 0, 1>>
    /\ sz_computed.pw = 5 /\ sz_last.pw = 3
    /\ sz_last.sr = SizeReq(2, 2)
    /\ Measure(sz_widget, VERT, 3).sr = SizeReq(6, 6)

\* C5: after a completed layout call the root is at least as wide as the
\* viewport and as the widest minimum of its current children, and at
\* least as high as the viewport and as their highest minimum at that
\* width, also when children were pushed after an earlier pass.
C5_RootCoversChildren ==
    last_op = "layout_work" =>
        /\ allocated(m_root)[3] >= m_w
        /\ allocated(m_root)[4] >= m_h
        /\ \A i \in 1..Len(m_root.m_children) :
              /\ allocated(m_root)[3]
                    >= Measure(m_root.m_children[i], HORZ, -1).sr.min
              /\ Measure(m_root.m_children[i], VERT, allocated(m_root)[3]).ok
                    => allocated(m_root)[4]
                          >= Measure(m_root.m_children[i], VERT,
                                     allocated(m_root)[3]).sr.min

\* C5: a pass completed with the root 4 wide, over a grid of minimum width
\* 25 that was pushed after the root had been measured with a text alone
C5_RootBelowNewChild ==
    /\ last_op = "layout_work"
    /\ Len(m_root.m_children) = 2
    /\ m_root.m_children[1].kind = "text" /\ m_root.m_children[2].kind = "grid"
    /\ m_w = 4 /\ allocated(m_root) = <<0, 0, 4, 3>>
    /\ m_root.cached_sr[1].min = 2
    /\ Measure(m_root.m_children[2], HORZ, -1).sr.min = 25

\* C6 as stated: every track's SizeReq on an axis is the field-wise maximum
\* over the children placed in that track whose span on that axis is 1,
\* whatever their span on the other axis.
C6_PerAxisAggregation ==
    \A g \in Grids : \A dim \in {HORZ, VERT} :
        g.cached_sr_valid[dim + 1] =>
            \A t \in 1..Len(TracksOf(g, dim)) :
                TracksOf(g, dim)[t].sr =
                    MaxOver(g, dim,
                        {i \in 1..Len(g.m_children) :
                            /\ g.m_child_info[i].pos[dim + 1] = t - 1
                            /\ g.m_child_info[i].span[dim + 1] = 1})

\* C6 as amended: every track's SizeReq on an axis is the field-wise
\* maximum, from {0, 0}, over the children placed in that track whose span
\* is 1 on both axes; a child that spans more than one row or more than
\* one column contributes to no track of either axis.
C6_SingleCellAggregation ==
    \A g \in Grids : \A dim \in {HORZ, VERT} :
        g.cached_sr_valid[dim + 1] =>
            \A t \in 1..Len(TracksOf(g, dim)) :
                TracksOf(g, dim)[t].sr =
                    MaxOver(g, dim,
                        {i \in 1..Len(g.m_children) :
                            /\ g.m_child_info[i].pos[dim + 1] = t - 1
                            /\ g.m_child_info[i].span = <<1, 1>>})

\* C6: a measured grid whose first row merges three children of different
\* heights and whose second row holds only a child spanning three columns
C6_RowsMerged ==
    \E g \in Grids :
        /\ g.cached_sr_valid = <<TRUE, TRUE>>
        /\ Len(g.m_row_info) = 2
        /\ g.m_row_info[1].sr = SizeReq(10, 10)
        /\ g.m_children[2].cached_sr[2] = SizeReq(1, 1)
        /\ g.m_child_info[4].span = <<3, 1>>
        /\ g.m_children[4].cached_sr[2].min > 0
        /\ g.m_row_info[2].sr = SizeReq(0, 0)

\* C7: the SizeReq get_preferred_size returns has min <= nat, whatever the
\* margins and the expand and shrink flags, and after the clamp of nat to
\* the sentinel.
C7_MinAtMostNat ==
    sz_last.called => sz_last.sr.min <= sz_last.sr.nat

\* C7: a text as wide as the sentinel with a margin of 1: nat is clamped,
\* min is not
C7_ClampBelowMin ==
    /\ sz_last.called /\ sz_last.dim = HORZ
    /\ sz_widget.kind = "text"
    /\ sz_last.sr = SizeReq(ui_expand_sz + 1, ui_expand_sz)

\* C8: the child list of a Stack is the list its add_child and pop_child
\* calls describe: add_child appends, pop_child removes the last child, and
\* pop_child on the empty list leaves it empty.
C8_StackIsLifo ==
    st_stack.m_children = Replay(st_log)

\* C8: three children added and one popped: the first two are left, in the
\* order they were added
C8_ThreeAddedOnePopped ==
    /\ st_log = << <<"add_child", 1>>, <<"add_child", 2>>, <<"add_child", 3>>,
                   <<"pop_child", 0>> >>
    /\ st_stack.m_children = <<1, 2>>

\* C9: in every grid under the root, for the columns and for the rows, the
\* first offset is 0 and every next offset is the previous offset plus the
\* previous size, so the offsets never decrease.
C9_OffsetsArePrefixSums ==
    \A g \in Grids : \A tracks \in {g.m_col_info, g.m_row_info} :
        /\ Len(tracks) > 0 => tracks[1].offset = 0
        /\ \A i \in 1..(Len(tracks) - 1) :
              /\ tracks[i + 1].offset = tracks[i].offset + tracks[i].size
              /\ tracks[i + 1].offset >= tracks[i].offset

\* C9: a pass laid out a grid whose columns are 10, 20 and 5 wide: their
\* offsets are 0, 10 and 30
C9_TenTwentyFive ==
    /\ last_op = "layout_work"
    /\ \E g \in Grids :
          /\ [i \in 1..Len(g.m_col_info) |-> g.m_col_info[i].size] = <<10, 20, 5>>
          /\ [i \in 1..Len(g.m_col_info) |-> g.m_col_info[i].offset] = <<0, 10, 30>>

\* C10: Box::layout_cross_axis gives a child the whole cross budget exactly
\* when the alignment Box::_allocate_region places it with is stretch, and
\* min(max(min, budget), nat) otherwise.
C10_CrossFollowsAlignment ==
    bc_pc = "placed" =>
        \A i \in 1..Len(bc_ch_sz) :
            bc_ch_sz[i] = IF bc_align[i] = "stretch"
                          THEN bc_cross_sz
                          ELSE Min(Max(bc_psz[i].min, bc_cross_sz), bc_psz[i].nat)

\* C10: a child with align_self start in a box with align_items stretch is
\* placed as start and sized as stretch, past its natural size
C10_StartSizedAsStretch ==
    /\ bc_pc = "placed"
    /\ bc_box.align_items = "stretch"
    /\ bc_box.m_children[1].align_self = "start"
    /\ bc_align[1] = "start"
    /\ bc_psz[1] = SizeReq(0, 1) /\ bc_cross_sz = 2
    /\ bc_ch_sz[1] = 2

\* C11: in every round of the distribution loop that does not leave it, the
\* undistributed amount gets strictly smaller and stays >= 0; and the loop
\* has returned only with the amount at zero or with no child of positive
\* weight below its natural size.
C11_ExtraDecreases ==
    /\ bm_pc = "loop" /\ bm_extra > 0
          /\ sum_flex_grow(bm_flex, bm_psz, bm_ch_sz) # 0
          => /\ main_axis_round(bm_flex, bm_psz, bm_ch_sz, bm_extra).extra < bm_extra
             /\ main_axis_round(bm_flex, bm_psz, bm_ch_sz, bm_extra).extra >= 0
    /\ bm_pc = "done"
          => bm_extra = 0 \/ sum_flex_grow(bm_flex, bm_psz, bm_ch_sz) = 0

\* C11: a round took 2 of 3 units (the first child was capped at its natural
\* size) and left 1 for the next round
C11_SecondRoundPending ==
    /\ bm_pc = "loop"
    /\ bm_psz = << SizeReq(0, 1), SizeReq(0, 2) >> /\ bm_flex = <<2, 1>>
    /\ bm_main_sz = 3
    /\ bm_ch_sz = <<1, 1>> /\ bm_extra = 1

\* C12: with a budget of at least the sum of the minimums, no ASSERT of
\* Box::layout_main_axis fails, every child size is between the child's
\* minimum and its natural size at every step of the loop, and the sizes
\* add up to at most the budget, so that extra_main_space of
\* Box::_allocate_region is >= 0 on return.
C12_MainAxisBounds ==
    /\ bm_main_sz >= SeqSum(Mins(bm_psz)) => bm_pc # "abort"
    /\ bm_pc \in {"loop", "done"}
          => /\ \A i \in 1..Len(bm_ch_sz) :
                   bm_psz[i].min <= bm_ch_sz[i] /\ bm_ch_sz[i] <= bm_psz[i].nat
             /\ SeqSum(bm_ch_sz) <= bm_main_sz
    /\ bm_pc = "done"
          => extra_main_space([horz |-> TRUE, m_region |-> <<0, 0, bm_main_sz, 0>>],
                              bm_ch_sz, << >>) >= 0

\* C12: the loop returned after two rounds with both children at their
\* natural size, the first one capped there in the first round
C12_CappedAtNatural ==
    /\ bm_pc = "done"
    /\ bm_psz = << SizeReq(0, 1), SizeReq(0, 2) >> /\ bm_flex = <<2, 1>>
    /\ bm_main_sz = 3
    /\ bm_ch_sz = <<1, 2>> /\ bm_extra = 0

====
